---- MODULE Spec2Model ----
(***************************************************************************)
(* Phase 2 curation pipeline (phase2_curation.py): the interactive session *)
(* that collects validated fields from the operator, numbers each record   *)
(* per (sanitized role model name, roll number) by scanning the output     *)
(* folder, and writes one JSON file per record.                            *)
(*                                                                         *)
(* Strings are sequences of one-character strings, so that strip, split,   *)
(* lower, int(), str() and substring tests are computed, not assumed.      *)
(***************************************************************************)
EXTENDS Integers, Sequences, FiniteSets, TLC

VARIABLES
    pc,                     \* the prompt (or step) the program is blocked at
    dir,                    \* OUTPUT_FOLDER: file name -> file content
    raw_files,              \* sorted(Path(RAW_DATA_FOLDER).glob("*.txt")), by name
    roll_number,            \* main: roll_number
    selected_file,          \* main: selected_file (index into raw_files, 0 = none)
    num_entries,            \* main: num_entries
    entries_done,           \* main: iterations of `for _ in range(num_entries)` completed
    total_entries_created,  \* main: total_entries_created
    role_model_name,        \* create_json_entry: role_model_name
    story_number,           \* create_json_entry: story_number
    context,                \* create_json_entry / get_context: context
    situation,              \* get_situation_faced: situation
    narrative,              \* get_challenge_narrative: narrative
    themes,                 \* select_mental_health_themes: selected
    strategies_input,       \* get_coping_strategies: strategies_input
    strategies,             \* get_coping_strategies: strategies
    action,                 \* get_key_action: action
    quote,                  \* get_quote_from_text: quote
    confirm,                \* get_quote_from_text: confirm (last answer, lower-cased)
    lesson,                 \* get_psychological_lesson: lesson
    outcome,                \* get_outcome_resolution: outcome
    hist                    \* observation only: what happened so far

mainVars   == <<raw_files, roll_number, selected_file, num_entries, entries_done,
                total_entries_created>>
entryVars  == <<role_model_name, story_number>>
fieldVars  == <<context, situation, narrative, themes, strategies_input, strategies,
                action, quote, confirm, lesson, outcome>>
vars       == <<pc, dir, mainVars, entryVars, fieldVars, hist>>

----------------------------------------------------------------------------
(* Characters and strings                                                  *)

Digits == <<"0", "1", "2", "3", "4", "5", "6", "7", "8", "9">>

IsDigit(c) == \E i \in 1..10 : Digits[i] = c

DigitVal(c) == (CHOOSE i \in 1..10 : Digits[i] = c) - 1

\* str.isspace() for the characters of the model's alphabet
IsSpace(c) == c \in {" ", "\t", "\n"}

UpperCase ==
    <<"A", "B", "C", "D", "E", "F", "G", "H", "I", "J", "K", "L",
      "M", "N", "O", "P", "Q", "R", "S", "T", "U", "V", "W", "X", "Y", "Z">>

LowerCase ==
    <<"a", "b", "c", "d", "e", "f", "g", "h", "i", "j", "k", "l",
      "m", "n", "o", "p", "q", "r", "s", "t", "u", "v", "w", "x", "y", "z">>

\* str.lower(), character by character
LowerChar(c) ==
    IF \E i \in 1..Len(UpperCase) : UpperCase[i] = c
    THEN LowerCase[CHOOSE i \in 1..Len(UpperCase) : UpperCase[i] = c]
    ELSE c

Lower(s) == [i \in 1..Len(s) |-> LowerChar(s[i])]

RECURSIVE LStrip(_)
LStrip(s) == IF s # <<>> /\ IsSpace(Head(s)) THEN LStrip(Tail(s)) ELSE s

RECURSIVE RStrip(_)
RStrip(s) == IF s # <<>> /\ IsSpace(s[Len(s)]) THEN RStrip(SubSeq(s, 1, Len(s) - 1)) ELSE s

\* str.strip()
Strip(s) == RStrip(LStrip(s))

\* str.replace(c, "")
Remove(s, c) == SelectSeq(s, LAMBDA x : x # c)

\* str.startswith / str.endswith
StartsWith(s, p) == Len(s) >= Len(p) /\ SubSeq(s, 1, Len(p)) = p
EndsWith(s, p) == Len(s) >= Len(p) /\ SubSeq(s, Len(s) - Len(p) + 1, Len(s)) = p

\* needle in hay
Contains(hay, needle) ==
    \E i \in 0..(Len(hay) - Len(needle)) : SubSeq(hay, i + 1, i + Len(needle)) = needle

\* index of the first occurrence of character c in s, 0 when absent
FirstIndex(s, c) ==
    IF \E i \in 1..Len(s) : s[i] = c
    THEN CHOOSE i \in 1..Len(s) : s[i] = c /\ \A j \in 1..(i - 1) : s[j] # c
    ELSE 0

\* str.split(sep): always at least one part, empty parts kept
RECURSIVE Split(_, _)
Split(s, sep) ==
    LET i == FirstIndex(s, sep)
    IN  IF i = 0 THEN <<s>>
        ELSE <<SubSeq(s, 1, i - 1)>> \o Split(SubSeq(s, i + 1, Len(s)), sep)

\* str.split(sep, 1)
Split1(s, sep) ==
    LET i == FirstIndex(s, sep)
    IN  IF i = 0 THEN <<s>> ELSE <<SubSeq(s, 1, i - 1), SubSeq(s, i + 1, Len(s))>>

\* sep.join(parts)
RECURSIVE Join(_, _)
Join(parts, sep) ==
    IF parts = <<>> THEN <<>>
    ELSE IF Len(parts) = 1 THEN parts[1]
    ELSE parts[1] \o <<sep>> \o Join(Tail(parts), sep)

Rep(c, n) == [i \in 1..n |-> c]

\* int(s) accepts: optional surrounding whitespace, an optional sign, then digits,
\* with single underscores allowed between digits; anything else is ValueError.
IntBody(s) ==
    LET t == Strip(s)
    IN  IF t # <<>> /\ t[1] \in {"+", "-"} THEN Tail(t) ELSE t

IntOk(s) ==
    LET b == IntBody(s)
    IN  /\ b # <<>>
        /\ \A i \in 1..Len(b) : IsDigit(b[i]) \/ b[i] = "_"
        /\ IsDigit(b[1]) /\ IsDigit(b[Len(b)])
        /\ \A i \in 1..(Len(b) - 1) : ~(b[i] = "_" /\ b[i + 1] = "_")

RECURSIVE DigitsVal(_)
DigitsVal(ds) ==
    IF ds = <<>> THEN 0
    ELSE 10 * DigitsVal(SubSeq(ds, 1, Len(ds) - 1)) + DigitVal(ds[Len(ds)])

IntVal(s) ==
    LET t == Strip(s)
        v == DigitsVal(Remove(IntBody(s), "_"))
    IN  IF t[1] = "-" THEN 0 - v ELSE v

\* str(n) / f"{n}" for an int
RECURSIVE NatStr(_)
NatStr(n) ==
    IF n < 10 THEN <<Digits[n + 1]>>
    ELSE NatStr(n \div 10) \o <<Digits[(n % 10) + 1]>>

Str(n) == IF n < 0 THEN <<"-">> \o NatStr(0 - n) ELSE NatStr(n)

SetMax(S) == CHOOSE x \in S : \A y \in S : y <= x

----------------------------------------------------------------------------
(* File naming and numbering                                               *)

JsonExt == <<".", "j", "s", "o", "n">>

sanitize_role_model_name(name) == Remove(Remove(name, " "), "'")

\* lines 78-96: the story number a directory entry contributes, as a set:
\* empty when the entry is skipped
ExistingNumber(fname, clean_name, roll) ==
    LET parts == Split(fname, "_")
    IN  IF ~EndsWith(fname, JsonExt) THEN {}
        ELSE IF Len(parts) < 3 THEN {}
        ELSE IF parts[1] # clean_name THEN {}
        ELSE IF Split(parts[3], ".")[1] # roll THEN {}
        ELSE IF ~IntOk(parts[2]) THEN {}
        ELSE {IntVal(parts[2])}

\* get_next_story_number, over the names os.listdir(OUTPUT_FOLDER) returns
get_next_story_number(name, roll, listing) ==
    LET clean_name == sanitize_role_model_name(name)
        existing_numbers == UNION {ExistingNumber(f, clean_name, roll) : f \in listing}
    IN  IF existing_numbers = {} THEN 1 ELSE SetMax(existing_numbers) + 1

\* line 336: f"{clean_name}_{story_number}_{roll_number}.json"
output_filename(name, number, roll) ==
    sanitize_role_model_name(name) \o <<"_">> \o Str(number) \o <<"_">> \o roll \o JsonExt

\* lines 339-340: open(output_path, 'w') creates the file or replaces its content
WriteFile(d, fname, content) ==
    [f \in (DOMAIN d) \cup {fname} |-> IF f = fname THEN content ELSE d[f]]

----------------------------------------------------------------------------
(* Program constants                                                       *)

MENTAL_HEALTH_THEMES ==
    <<"anxiety", "depression", "stress_management", "burnout", "grief",
      "addiction_recovery", "imposter_syndrome", "self_esteem",
      "relationship_challenges", "public_pressure">>

MinNameLen == 2
MinContextLen == 10
MinSituationLen == 10
MinNarrativeLen == 20
MinThemes == 2
MaxThemes == 4
MinStrategiesLen == 5
MinActionLen == 5
MinQuoteLen == 10
MinLessonLen == 20
MinOutcomeLen == 10
MinNumEntries == 1
MaxNumEntries == 3

(* Bounds of the model                                                     *)

\* records one session creates before the operator stops
MaxRecords == 3
\* whitespace characters the operator types around an answer
MaxPad == 1
\* comma-separated tokens in one theme or strategy answer
MaxTokens == 5

----------------------------------------------------------------------------
(* The raw text files of RAW_DATA_FOLDER                                   *)

\* "Role Model: Jane Doe\nI asked for help."
JaneText ==
    <<"R", "o", "l", "e", " ", "M", "o", "d", "e", "l", ":", " ", "J", "a", "n", "e",
      " ", "D", "o", "e", "\n", "I", " ", "a", "s", "k", "e", "d", " ", "f", "o", "r",
      " ", "h", "e", "l", "p", ".">>

\* "Small steps matter." (no header line)
StepsText ==
    <<"S", "m", "a", "l", "l", " ", "s", "t", "e", "p", "s", " ", "m", "a", "t", "t",
      "e", "r", ".">>

\* the sorted file names, and what each file holds
RawFiles == <<"jane.txt", "steps.txt">>

RawText(fname) == IF fname = "jane.txt" THEN JaneText ELSE StepsText

\* display_raw_content: the whole text of the selected file
raw_content == RawText(raw_files[selected_file])

RoleModelLabel == <<"r", "o", "l", "e", " ", "m", "o", "d", "e", "l", ":">>

\* infer_role_model_name_from_raw; None is the empty string (both are falsy at line 56)
RECURSIVE FirstHeader(_)
FirstHeader(lines) ==
    IF lines = <<>> THEN <<>>
    ELSE IF StartsWith(Lower(Head(lines)), RoleModelLabel)
         THEN Strip(Split1(Head(lines), ":")[2])
         ELSE FirstHeader(Tail(lines))

infer_role_model_name_from_raw(raw) == FirstHeader(Split(raw, "\n"))

----------------------------------------------------------------------------
(* Validated collection                                                    *)

\* input(...) without .strip()
ReadLineUnstripped(inp) == inp

\* input(...).strip()
ReadLine(inp) == Strip(inp)

\* the exit test of every `while not x or len(x) < n` loop
TextAccepted(s, min) == s # <<>> /\ Len(s) >= min

\* lines 204-205: the comma-separated tokens; int() of any of them may raise ValueError
ThemeTokens(inp) == Split(inp, ",")

ThemeTokensNumeric(inp) ==
    \A i \in 1..Len(ThemeTokens(inp)) : IntOk(Strip(ThemeTokens(inp)[i]))

ThemeChoices(inp) ==
    [i \in 1..Len(ThemeTokens(inp)) |-> IntVal(Strip(ThemeTokens(inp)[i])) - 1]

\* lines 203-215: one pass of the loop body; the new value of `selected`
SelectedAfter(selected, inp) ==
    IF ~ThemeTokensNumeric(inp) THEN selected
    ELSE LET choices == ThemeChoices(inp)
         IN  IF \A i \in 1..Len(choices) :
                    0 <= choices[i] /\ choices[i] < Len(MENTAL_HEALTH_THEMES)
             THEN IF MinThemes <= Len(choices) /\ Len(choices) <= MaxThemes
                  THEN [i \in 1..Len(choices) |-> MENTAL_HEALTH_THEMES[choices[i] + 1]]
                  ELSE selected
             ELSE selected

\* line 202: the loop condition
ThemesLoopAgain(selected) == Len(selected) < MinThemes \/ Len(selected) > MaxThemes

\* line 229: [s.strip() for s in strategies_input.split(',') if s.strip()]
RECURSIVE StripNonEmpty(_)
StripNonEmpty(parts) ==
    IF parts = <<>> THEN <<>>
    ELSE IF Strip(Head(parts)) # <<>>
         THEN <<Strip(Head(parts))>> \o StripNonEmpty(Tail(parts))
         ELSE StripNonEmpty(Tail(parts))

SplitStrategies(s) == StripNonEmpty(Split(s, ","))

\* line 256: quote.lower() not in raw_content.lower()
QuoteFound(q, raw) == Contains(Lower(raw), Lower(q))

\* confirm == 'n' in place of confirm != 'y'
QuoteRetryOnlyOnNo(c) == c = <<"n">>

\* line 258: confirm != 'y'
QuoteRetry(c) == c # <<"y">>

----------------------------------------------------------------------------
(* What the operator may type                                              *)

Padded(bodies) ==
    {Rep(" ", l) \o b \o Rep("\t", r) : l \in 0..MaxPad, r \in 0..MaxPad, b \in bodies}

\* free text of exactly n characters, with an inner space when there is room
TextOfLen(n) == IF n < 3 THEN Rep("x", n) ELSE Rep("x", n - 2) \o <<" ", "x">>

\* nothing, one character short of the minimum, and the minimum
TextInputs(min) == Padded({TextOfLen(0), TextOfLen(min - 1), TextOfLen(min)})

RollInputs == Padded({<<>>, <<"4", "2">>, <<"4", ".", "2">>})

NameInputs == Padded({<<>>, <<"Z">>, <<"A", "_", "B">>})

NumberInputs == Padded({<<>>, <<"x">>, <<"0">>, <<"1">>, <<"2">>, <<"3">>, <<"4">>})

YesNoInputs == {<<>>, <<"y">>, <<"Y">>, <<"n">>, <<" ", "y">>}

\* "1,3,5", "1", "a,b", "1,2,3,4,5", "0,1", "11,2"
SessionThemeInputs ==
    {<<"1", ",", "3", ",", "5">>, <<"1">>, <<"a", ",", "b">>,
     <<"1", ",", "2", ",", "3", ",", "4", ",", "5">>, <<"0", ",", "1">>,
     <<"1", "1", ",", "2">>}

\* "therapy, meditation ,  journaling" and "a,b"
SessionStrategyInputs ==
    Padded({<<"t", "h", "e", "r", "a", "p", "y", ",", " ", "m", "e", "d", "i", "t", "a",
              "t", "i", "o", "n", " ", ",", " ", " ", "j", "o", "u", "r", "n", "a", "l",
              "i", "n", "g">>,
            <<"a", ",", "b">>})

\* "too short" and "Asked For Help" (in jane.txt up to case, not in steps.txt)
SessionQuoteInputs ==
    Padded({<<"t", "o", "o", " ", "s", "h", "o", "r", "t">>,
            <<"A", "s", "k", "e", "d", " ", "F", "o", "r", " ", "H", "e", "l", "p">>})

----------------------------------------------------------------------------
(* The session: main and create_json_entry, one step per input() call      *)

NoFields ==
    /\ context = <<>> /\ situation = <<>> /\ narrative = <<>> /\ themes = <<>>
    /\ strategies_input = <<>> /\ strategies = <<>> /\ action = <<>> /\ quote = <<>>
    /\ confirm = <<>> /\ lesson = <<>> /\ outcome = <<>>

NoFieldsNext ==
    /\ context' = <<>> /\ situation' = <<>> /\ narrative' = <<>> /\ themes' = <<>>
    /\ strategies_input' = <<>> /\ strategies' = <<>> /\ action' = <<>> /\ quote' = <<>>
    /\ confirm' = <<>> /\ lesson' = <<>> /\ outcome' = <<>>

\* start_dir: the folder when create_json_entry was last entered; numbers: for each
\* (sanitized name, roll number), the story numbers of the records written, in
\* order; answered_y: the quote the operator accepted with y, if any; aborted_at:
\* the prompt at which the session was interrupted
NoHistory ==
    [start_dir |-> <<>>, numbers |-> <<>>, answered_y |-> <<"-">>, aborted_at |-> "-"]

\* line 14 leaves an existing folder alone; here the folder starts empty
Init ==
    /\ pc = "roll"
    /\ dir = <<>>
    /\ raw_files \in {<<>>, RawFiles}
    /\ roll_number = <<>>
    /\ selected_file = 0
    /\ num_entries = 0
    /\ entries_done = 0
    /\ total_entries_created = 0
    /\ role_model_name = <<>>
    /\ story_number = 0
    /\ NoFields
    /\ hist = NoHistory

\* lines 377-379
main_roll_number ==
    /\ pc = "roll"
    /\ \E inp \in RollInputs :
        /\ roll_number' = ReadLine(inp)
        /\ pc' = IF roll_number' = <<>> THEN "roll" ELSE "files"
    /\ UNCHANGED <<dir, raw_files, selected_file, num_entries, entries_done,
                   total_entries_created, entryVars, fieldVars, hist>>

\* lines 386-389: display_available_files returned nothing
main_no_raw_files ==
    /\ pc = "files"
    /\ raw_files = <<>>
    /\ pc' = "done"
    /\ UNCHANGED <<dir, mainVars, entryVars, fieldVars, hist>>

\* lines 392-394 with select_raw_file (121-133)
select_raw_file ==
    /\ pc = "files"
    /\ raw_files # <<>>
    /\ \E inp \in NumberInputs :
        IF ~IntOk(inp) THEN UNCHANGED <<pc, selected_file>>
        ELSE IF IntVal(inp) = 0 THEN pc' = "done" /\ selected_file' = 0
        ELSE IF 1 <= IntVal(inp) /\ IntVal(inp) <= Len(raw_files)
             THEN pc' = "num" /\ selected_file' = IntVal(inp)
             ELSE UNCHANGED <<pc, selected_file>>
    /\ UNCHANGED <<dir, raw_files, roll_number, num_entries, entries_done,
                   total_entries_created, entryVars, fieldVars, hist>>

\* lines 397-405, up to the first call of create_json_entry (409); a session of the
\* model stops at MaxRecords records
main_num_entries ==
    /\ pc = "num"
    /\ \E inp \in NumberInputs :
        IF ~IntOk(inp) THEN UNCHANGED <<pc, num_entries, entries_done>>
        ELSE IF MinNumEntries <= IntVal(inp) /\ IntVal(inp) <= MaxNumEntries
             THEN /\ total_entries_created + IntVal(inp) <= MaxRecords
                  /\ num_entries' = IntVal(inp)
                  /\ entries_done' = 0
                  /\ pc' = "name"
             ELSE UNCHANGED <<pc, num_entries, entries_done>>
    /\ hist' = [hist EXCEPT !.start_dir = dir]
    /\ UNCHANGED <<dir, raw_files, roll_number, selected_file, total_entries_created,
                   entryVars, fieldVars>>

\* get_or_confirm_role_model_name, with the output file opened for writing as soon as its name is
\* known, before the fields are collected
get_or_confirm_role_model_name_saving ==
    /\ pc = "name"
    /\ \E inp \in NameInputs :
        LET inferred == infer_role_model_name_from_raw(raw_content)
            typed == ReadLine(inp)
            returned == IF inferred # <<>> THEN TRUE
                        ELSE typed # <<>> /\ Len(typed) >= MinNameLen
            name == IF inferred # <<>> /\ typed = <<>> THEN inferred ELSE typed
            number == get_next_story_number(name, roll_number, DOMAIN dir)
        IN  IF returned
            THEN /\ role_model_name' = name
                 /\ story_number' = number
                 /\ dir' = WriteFile(dir, output_filename(name, number, roll_number),
                                     [Role_Model_Name |-> name])
                 /\ pc' = "context"
            ELSE UNCHANGED <<pc, role_model_name, story_number, dir>>
    /\ UNCHANGED <<mainVars, fieldVars, hist>>

\* lines 293-299: get_or_confirm_role_model_name (50-64) or get_role_model_name
\* (154-160), then get_next_story_number
get_or_confirm_role_model_name ==
    /\ pc = "name"
    /\ \E inp \in NameInputs :
        LET inferred == infer_role_model_name_from_raw(raw_content)
            typed == ReadLine(inp)
            returned == IF inferred # <<>> THEN TRUE
                        ELSE typed # <<>> /\ Len(typed) >= MinNameLen
            name == IF inferred # <<>> /\ typed = <<>> THEN inferred ELSE typed
        IN  IF returned
            THEN /\ role_model_name' = name
                 /\ story_number' = get_next_story_number(name, roll_number, DOMAIN dir)
                 /\ pc' = "context"
            ELSE UNCHANGED <<pc, role_model_name, story_number>>
    /\ UNCHANGED <<dir, mainVars, fieldVars, hist>>

\* get_context, lines 162-170
get_context ==
    /\ pc = "context"
    /\ \E inp \in TextInputs(MinContextLen) :
        /\ context' = ReadLine(inp)
        /\ pc' = IF TextAccepted(context', MinContextLen) THEN "situation" ELSE "context"
    /\ hist' = hist
    /\ UNCHANGED <<dir, mainVars, entryVars, situation, narrative, themes,
                   strategies_input, strategies, action, quote, confirm, lesson,
                   outcome>>

\* get_situation_faced, lines 172-180
get_situation_faced ==
    /\ pc = "situation"
    /\ \E inp \in TextInputs(MinSituationLen) :
        /\ situation' = ReadLine(inp)
        /\ pc' = IF TextAccepted(situation', MinSituationLen) THEN "narrative" ELSE "situation"
    /\ hist' = hist
    /\ UNCHANGED <<dir, mainVars, entryVars, context, narrative, themes,
                   strategies_input, strategies, action, quote, confirm, lesson,
                   outcome>>

\* get_challenge_narrative, lines 182-190
get_challenge_narrative ==
    /\ pc = "narrative"
    /\ \E inp \in TextInputs(MinNarrativeLen) :
        /\ narrative' = ReadLine(inp)
        /\ pc' = IF TextAccepted(narrative', MinNarrativeLen) THEN "themes" ELSE "narrative"
    /\ hist' = hist
    /\ UNCHANGED <<dir, mainVars, entryVars, context, situation, themes,
                   strategies_input, strategies, action, quote, confirm, lesson,
                   outcome>>

\* select_mental_health_themes, lines 192-217: one pass of the while loop
select_mental_health_themes(inputs) ==
    /\ pc = "themes"
    /\ \E inp \in inputs :
        /\ themes' = SelectedAfter(themes, inp)
        /\ pc' = IF ThemesLoopAgain(themes') THEN "themes" ELSE "strategies"
    /\ hist' = hist
    /\ UNCHANGED <<dir, mainVars, entryVars, context, situation, narrative,
                   strategies_input, strategies, action, quote, confirm, lesson,
                   outcome>>

select_themes_in_session == select_mental_health_themes(SessionThemeInputs)

\* get_coping_strategies, lines 219-230
get_coping_strategies(inputs) ==
    /\ pc = "strategies"
    /\ \E inp \in inputs :
        /\ strategies_input' = ReadLine(inp)
        /\ IF TextAccepted(strategies_input', MinStrategiesLen)
           THEN strategies' = SplitStrategies(strategies_input') /\ pc' = "action"
           ELSE strategies' = strategies /\ pc' = "strategies"
    /\ hist' = hist
    /\ UNCHANGED <<dir, mainVars, entryVars, context, situation, narrative, themes,
                   action, quote, confirm, lesson, outcome>>

get_strategies_in_session == get_coping_strategies(SessionStrategyInputs)

\* get_key_action, lines 232-240
get_key_action ==
    /\ pc = "action"
    /\ \E inp \in TextInputs(MinActionLen) :
        /\ action' = ReadLine(inp)
        /\ pc' = IF TextAccepted(action', MinActionLen) THEN "quote" ELSE "action"
    /\ hist' = hist
    /\ UNCHANGED <<dir, mainVars, entryVars, context, situation, narrative, themes,
                   strategies_input, strategies, quote, confirm, lesson, outcome>>

\* get_quote_from_text, lines 250-256 and 261: the quote prompt, its length loop and
\* the containment test; a quote found in the raw text is returned at once
get_quote_from_text(inputs) ==
    /\ pc = "quote"
    /\ \E inp \in inputs :
        /\ quote' = ReadLine(inp)
        /\ pc' = IF ~TextAccepted(quote', MinQuoteLen) THEN "quote"
                 ELSE IF QuoteFound(quote', raw_content) THEN "lesson"
                 ELSE "confirm"
    /\ hist' = [hist EXCEPT !.answered_y = <<"-">>]
    /\ UNCHANGED <<dir, mainVars, entryVars, context, situation, narrative, themes,
                   strategies_input, strategies, action, confirm, lesson, outcome>>

get_quote_in_session == get_quote_from_text(SessionQuoteInputs)

\* get_quote_from_text, lines 257-261: the warning prompt; anything but 'y' re-enters
\* the function (line 259), whose result is returned as it is
get_quote_from_text_confirm ==
    /\ pc = "confirm"
    /\ \E inp \in YesNoInputs :
        /\ confirm' = Lower(inp)
        /\ pc' = IF QuoteRetry(confirm') THEN "quote" ELSE "lesson"
        /\ hist' = [hist EXCEPT !.answered_y =
                        IF inp \in {<<"y">>, <<"Y">>} THEN quote ELSE <<"-">>]
    /\ UNCHANGED <<dir, mainVars, entryVars, context, situation, narrative, themes,
                   strategies_input, strategies, action, quote, lesson, outcome>>

\* get_psychological_lesson, lines 263-272
get_psychological_lesson ==
    /\ pc = "lesson"
    /\ \E inp \in TextInputs(MinLessonLen) :
        /\ lesson' = ReadLine(inp)
        /\ pc' = IF TextAccepted(lesson', MinLessonLen) THEN "outcome" ELSE "lesson"
    /\ hist' = hist
    /\ UNCHANGED <<dir, mainVars, entryVars, context, situation, narrative, themes,
                   strategies_input, strategies, action, quote, confirm, outcome>>

\* get_outcome_resolution, lines 274-282
get_outcome_resolution ==
    /\ pc = "outcome"
    /\ \E inp \in TextInputs(MinOutcomeLen) :
        /\ outcome' = ReadLine(inp)
        /\ pc' = IF TextAccepted(outcome', MinOutcomeLen) THEN "persist" ELSE "outcome"
    /\ hist' = hist
    /\ UNCHANGED <<dir, mainVars, entryVars, context, situation, narrative, themes,
                   strategies_input, strategies, action, quote, confirm, lesson>>

\* lines 318-330: the record, with get_source_reference (284-288)
json_entry ==
    [Role_Model_Name |-> role_model_name,
     Role_Model_Context |-> context,
     Situation_Faced |-> situation,
     Challenge_Narrative |-> narrative,
     Mental_Health_Themes |-> themes,
     Coping_Strategies_Used |-> strategies,
     Key_Action_Taken |-> action,
     Key_Quote_or_Insight |-> quote,
     Summary_Psychological |-> lesson,
     Outcome_Resolution |-> outcome,
     Source_Reference |-> raw_files[selected_file]]

SequenceKey(name, roll) == <<sanitize_role_model_name(name), roll>>

Recorded(numbers, key, n) ==
    [k \in (DOMAIN numbers) \cup {key} |->
        IF k = key
        THEN (IF key \in DOMAIN numbers THEN Append(numbers[key], n) ELSE <<n>>)
        ELSE numbers[k]]

\* lines 315-348 and 410-411: the record is built and written, the locals of
\* create_json_entry end with the call, main counts the entry
create_json_entry_save ==
    /\ pc = "persist"
    /\ dir' = WriteFile(dir, output_filename(role_model_name, story_number, roll_number),
                        json_entry)
    /\ total_entries_created' = total_entries_created + 1
    /\ entries_done' = entries_done + 1
    /\ role_model_name' = <<>>
    /\ story_number' = 0
    /\ NoFieldsNext
    /\ hist' = [hist EXCEPT
                   !.answered_y = <<"-">>,
                   !.numbers = Recorded(@, SequenceKey(role_model_name, roll_number),
                                        story_number)]
    /\ pc' = "pause"
    /\ UNCHANGED <<raw_files, roll_number, selected_file, num_entries>>

\* line 413, and the `for` of line 408 with its next call of create_json_entry
main_press_enter ==
    /\ pc = "pause"
    /\ pc' = IF entries_done < num_entries THEN "name" ELSE "continue"
    /\ hist' = [hist EXCEPT !.start_dir = dir]
    /\ UNCHANGED <<dir, mainVars, entryVars, fieldVars>>

\* lines 416-418; a session of the model stops at MaxRecords records
main_continue ==
    /\ pc = "continue"
    /\ \E inp \in YesNoInputs :
        IF Lower(inp) # <<"y">> THEN pc' = "done"
        ELSE total_entries_created < MaxRecords /\ pc' = "files"
    /\ UNCHANGED <<dir, mainVars, entryVars, fieldVars, hist>>

Prompts ==
    {"roll", "files", "num", "name", "context", "situation", "narrative", "themes",
     "strategies", "action", "quote", "confirm", "lesson", "outcome", "pause", "continue"}

\* the prompts of create_json_entry
RecordPrompts ==
    {"name", "context", "situation", "narrative", "themes", "strategies", "action", "quote",
     "confirm", "lesson", "outcome"}

\* input() raises KeyboardInterrupt or EOFError, which nothing catches: the process
\* ends where it is, and its memory with it
Interrupt ==
    /\ pc \in Prompts
    /\ pc' = "aborted"
    /\ roll_number' = <<>>
    /\ selected_file' = 0
    /\ num_entries' = 0
    /\ entries_done' = 0
    /\ total_entries_created' = 0
    /\ role_model_name' = <<>>
    /\ story_number' = 0
    /\ NoFieldsNext
    /\ hist' = [hist EXCEPT !.answered_y = <<"-">>, !.aborted_at = pc]
    /\ UNCHANGED <<dir, raw_files>>

Next ==
    \/ main_roll_number
    \/ main_no_raw_files
    \/ select_raw_file
    \/ main_num_entries
    \/ get_or_confirm_role_model_name
    \/ get_context
    \/ get_situation_faced
    \/ get_challenge_narrative
    \/ select_themes_in_session
    \/ get_strategies_in_session
    \/ get_key_action
    \/ get_quote_in_session
    \/ get_quote_from_text_confirm
    \/ get_psychological_lesson
    \/ get_outcome_resolution
    \/ create_json_entry_save
    \/ main_press_enter
    \/ main_continue
    \/ Interrupt

Spec == Init /\ [][Next]_vars

----------------------------------------------------------------------------
(* get_next_story_number against any content of OUTPUT_FOLDER: files appear *)
(* in the folder and leave it outside the program, and the function is     *)
(* called for a role model name and a roll number                          *)

FilePool ==
    {
     \* JaneDoe_1_42.json
     <<"J", "a", "n", "e", "D", "o", "e", "_", "1", "_", "4", "2", ".", "j", "s",
       "o", "n">>,
     \* JaneDoe_2_42.json
     <<"J", "a", "n", "e", "D", "o", "e", "_", "2", "_", "4", "2", ".", "j", "s",
       "o", "n">>,
     \* A_B_1_42.json
     <<"A", "_", "B", "_", "1", "_", "4", "2", ".", "j", "s", "o", "n">>,
     \* JaneDoe_1_4.2.json
     <<"J", "a", "n", "e", "D", "o", "e", "_", "1", "_", "4", ".", "2", ".", "j",
       "s", "o", "n">>,
     \* JaneDoe_5_42.bak.json
     <<"J", "a", "n", "e", "D", "o", "e", "_", "5", "_", "4", "2", ".", "b", "a",
       "k", ".", "j", "s", "o", "n">>,
     \* JaneDoe_7_42_old.json
     <<"J", "a", "n", "e", "D", "o", "e", "_", "7", "_", "4", "2", "_", "o", "l",
       "d", ".", "j", "s", "o", "n">>,
     \* JaneDoe_-5_42.json
     <<"J", "a", "n", "e", "D", "o", "e", "_", "-", "5", "_", "4", "2", ".", "j",
       "s", "o", "n">>,
     \* JaneDoe_x_42.json
     <<"J", "a", "n", "e", "D", "o", "e", "_", "x", "_", "4", "2", ".", "j", "s",
       "o", "n">>,
     \* JaneDoe_0_42.json
     <<"J", "a", "n", "e", "D", "o", "e", "_", "0", "_", "4", "2", ".", "j", "s",
       "o", "n">>,
     \* JaneDoe_9_42.txt
     <<"J", "a", "n", "e", "D", "o", "e", "_", "9", "_", "4", "2", ".", "t", "x",
       "t">>,
     \* JaneDoe_3.json
     <<"J", "a", "n", "e", "D", "o", "e", "_", "3", ".", "j", "s", "o", "n">>
    }

ScanNames == {<<"J", "a", "n", "e", " ", "D", "o", "e">>, <<"A", "_", "B">>}

ScanRolls == {<<"4", "2">>, <<"4">>, <<"4", ".", "2">>}

InitScan ==
    /\ pc = "scan"
    /\ dir = <<>>
    /\ raw_files = RawFiles
    /\ roll_number = <<>>
    /\ selected_file = 0
    /\ num_entries = 0
    /\ entries_done = 0
    /\ total_entries_created = 0
    /\ role_model_name = <<>>
    /\ story_number = 0
    /\ NoFields
    /\ hist = NoHistory

\* a file is put into the folder by hand
PlaceFile ==
    /\ pc \in {"scan", "scanned"}
    /\ \E f \in FilePool \ DOMAIN dir : dir' = WriteFile(dir, f, "out_of_band")
    /\ pc' = "scan"
    /\ UNCHANGED <<mainVars, entryVars, fieldVars, hist>>

\* a file is taken out of the folder by hand
DeleteFile ==
    /\ pc \in {"scan", "scanned"}
    /\ \E f \in DOMAIN dir : dir' = [g \in (DOMAIN dir) \ {f} |-> dir[g]]
    /\ pc' = "scan"
    /\ UNCHANGED <<mainVars, entryVars, fieldVars, hist>>

\* line 299: story_number = get_next_story_number(role_model_name, roll_number)
CallGetNextStoryNumber ==
    /\ pc \in {"scan", "scanned"}
    /\ \E name \in ScanNames, roll \in ScanRolls :
        /\ role_model_name' = name
        /\ roll_number' = roll
        /\ story_number' = get_next_story_number(name, roll, DOMAIN dir)
    /\ pc' = "scanned"
    /\ UNCHANGED <<dir, raw_files, selected_file, num_entries, entries_done,
                   total_entries_created, fieldVars, hist>>

NextScan == PlaceFile \/ DeleteFile \/ CallGetNextStoryNumber

SpecScan == InitScan /\ [][NextScan]_vars

----------------------------------------------------------------------------
(* The collection functions on their own, against many answers             *)

\* every sequence of 1..n elements of S
SeqsUpTo(S, n) == UNION {[1..k -> S] : k \in 1..n}

InitAt(label) ==
    /\ pc = label
    /\ dir = <<>>
    /\ raw_files = RawFiles
    /\ roll_number = <<"4", "2">>
    /\ selected_file \in 1..Len(RawFiles)
    /\ num_entries = 1
    /\ entries_done = 0
    /\ total_entries_created = 0
    /\ role_model_name = <<"J", "a", "n", "e", " ", "D", "o", "e">>
    /\ story_number = 1
    /\ NoFields
    /\ hist = NoHistory

\* select_mental_health_themes: below, at and above the vocabulary's ends, a token
\* that is no number, an empty token, a token with spaces
ThemeTokenPool ==
    {<<"0">>, <<"1">>, <<"3">>, <<"1", "0">>, <<"1", "1">>, <<"x">>, <<>>, <<" ", "2">>}

AllThemeInputs == {Join(toks, ",") : toks \in SeqsUpTo(ThemeTokenPool, MaxTokens)}

select_themes_alone == select_mental_health_themes(AllThemeInputs)

InitThemes == InitAt("themes")

SpecThemes == InitThemes /\ [][select_themes_alone]_vars

\* get_coping_strategies: empty, blank, short and long segments
StrategyTokenPool ==
    {<<>>, <<" ">>, <<"a", "b">>, <<"t", "h", "e", "r", "a", "p", "y", " ">>}

AllStrategyInputs ==
    Padded({Join(toks, ",") : toks \in SeqsUpTo(StrategyTokenPool, MaxTokens)})

get_strategies_alone == get_coping_strategies(AllStrategyInputs)

InitStrategies == InitAt("strategies")

SpecStrategies == InitStrategies /\ [][get_strategies_alone]_vars

\* get_quote_from_text: every stretch of steps.txt that is one character
\* short of the minimum, the minimum, or one more, typed as it is, in capitals,
\* or with its last character mistyped
UpperChar(c) ==
    IF \E i \in 1..Len(LowerCase) : LowerCase[i] = c
    THEN UpperCase[CHOOSE i \in 1..Len(LowerCase) : LowerCase[i] = c]
    ELSE c

Upper(s) == [i \in 1..Len(s) |-> UpperChar(s[i])]

Mistyped(s) == [i \in 1..Len(s) |-> IF i = Len(s) THEN "#" ELSE s[i]]

Stretches(raw, n) ==
    {SubSeq(raw, i, i + n - 1) : i \in 1..(Len(raw) - n + 1)}

QuoteBodies ==
    LET typed == UNION {Stretches(StepsText, n) :
                           n \in (MinQuoteLen - 1)..(MinQuoteLen + 1)}
    IN  typed \cup {Upper(b) : b \in typed} \cup {Mistyped(b) : b \in typed}

AllQuoteInputs == Padded(QuoteBodies)

get_quote_alone == get_quote_from_text(AllQuoteInputs)

InitQuote == InitAt("quote")

NextQuote == get_quote_alone \/ get_quote_from_text_confirm

SpecQuote == InitQuote /\ [][NextQuote]_vars

----------------------------------------------------------------------------
(* Properties                                                              *)

RangeOf(q) == {q[i] : i \in 1..Len(q)}

\* one more than the largest number written for the key, 1 when none was
ExpectedNext(numbers, key) ==
    IF key \in DOMAIN numbers THEN SetMax(RangeOf(numbers[key])) + 1 ELSE 1

\* C1: whenever create_json_entry holds a story number, it is one greater than the
\* largest number of the records written before for the same (sanitized name, roll
\* number), and 1 when no record was written for that pair.
NextNumberFollowsPersisted ==
    pc \in (RecordPrompts \ {"name"}) \cup {"persist"} =>
        story_number = ExpectedNext(hist.numbers, SequenceKey(role_model_name, roll_number))

JaneDoe42 == <<<<"J", "a", "n", "e", "D", "o", "e">>, <<"4", "2">>>>

JaneDoe_1_42 ==
    <<"J", "a", "n", "e", "D", "o", "e", "_", "1", "_", "4", "2", ".", "j", "s", "o", "n">>

\* C2: from an empty folder, the numbers given to the records of one (sanitized
\* name, roll number) are 1, 2, ..., k in the order of creation, and the first
\* record of Jane Doe for roll number 42 is in the file JaneDoe_1_42.json.
NumbersContiguousFromOne ==
    /\ \A k \in DOMAIN hist.numbers :
          \A i \in 1..Len(hist.numbers[k]) : hist.numbers[k][i] = i
    /\ JaneDoe42 \in DOMAIN hist.numbers => JaneDoe_1_42 \in DOMAIN dir

\* C3: whatever files the folder holds, get_next_story_number returns an integer
\* that is at least 1.
NextNumberAtLeastOne == pc = "scanned" => story_number >= 1

\* <sanitized name>_<digits>_<roll number>.json
ExactRecordName(f, name, roll) ==
    LET pre == sanitize_role_model_name(name) \o <<"_">>
        suf == <<"_">> \o roll \o JsonExt
        mid == SubSeq(f, Len(pre) + 1, Len(f) - Len(suf))
    IN  /\ Len(f) > Len(pre) + Len(suf)
        /\ StartsWith(f, pre)
        /\ EndsWith(f, suf)
        /\ \A i \in 1..Len(mid) : IsDigit(mid[i])

\* C4: the result of get_next_story_number for a name and a roll number is the same
\* with and without any file that is not named exactly
\* <sanitized name>_<number>_<roll number>.json for that name and roll number.
ScanDependsOnlyOnExactNames ==
    pc = "scanned" =>
        \A f \in FilePool :
            ~ExactRecordName(f, role_model_name, roll_number) =>
                /\ get_next_story_number(role_model_name, roll_number,
                                         (DOMAIN dir) \cup {f}) = story_number
                /\ get_next_story_number(role_model_name, roll_number,
                                         (DOMAIN dir) \ {f}) = story_number

\* C5: the list select_mental_health_themes returns has 2 to 4 entries, all from
\* the vocabulary, no entry twice.
ThemesValidSelection ==
    pc = "strategies" =>
        /\ Len(themes) >= 2 /\ Len(themes) <= 4
        /\ \A i \in 1..Len(themes) : themes[i] \in RangeOf(MENTAL_HEALTH_THEMES)
        /\ \A i, j \in 1..Len(themes) : i # j => themes[i] # themes[j]

Trimmed(s) == s = <<>> \/ (~IsSpace(s[1]) /\ ~IsSpace(s[Len(s)]))

\* C6: the list get_coping_strategies returns has at least one item, and every
\* item is non-empty, trimmed text.
StrategiesNeverEmpty ==
    pc = "action" =>
        /\ Len(strategies) >= 1
        /\ \A i \in 1..Len(strategies) : strategies[i] # <<>> /\ Trimmed(strategies[i])

\* q occurs in raw when letter case is ignored
OccursIgnoringCase(q, raw) ==
    \E i \in 0..(Len(raw) - Len(q)) :
        \A j \in 1..Len(q) : LowerChar(raw[i + j]) = LowerChar(q[j])

PromptOrder ==
    <<"name", "context", "situation", "narrative", "themes", "strategies", "action",
      "quote", "confirm", "lesson", "outcome", "persist">>

\* p comes after q in create_json_entry
After(p, q) ==
    \E i, j \in 1..Len(PromptOrder) : PromptOrder[i] = p /\ PromptOrder[j] = q /\ i > j

LongEnough(s, n) == Len(s) >= n /\ Trimmed(s)

\* C8: a free-text collection function returns only trimmed text of its minimum
\* length, and every record in the folder has: context >= 10, situation >= 10,
\* narrative >= 20, key action >= 5, quote >= 10, lesson >= 20, outcome >= 10
\* characters, none with leading or trailing whitespace.
PersistedFieldsMeetMinimums ==
    /\ After(pc, "context") => LongEnough(context, 10)
    /\ After(pc, "situation") => LongEnough(situation, 10)
    /\ After(pc, "narrative") => LongEnough(narrative, 20)
    /\ After(pc, "action") => LongEnough(action, 5)
    /\ After(pc, "confirm") => LongEnough(quote, 10)
    /\ After(pc, "lesson") => LongEnough(lesson, 20)
    /\ After(pc, "outcome") => LongEnough(outcome, 10)
    /\ \A f \in DOMAIN dir :
          /\ LongEnough(dir[f].Role_Model_Context, 10)
          /\ LongEnough(dir[f].Situation_Faced, 10)
          /\ LongEnough(dir[f].Challenge_Narrative, 20)
          /\ LongEnough(dir[f].Key_Action_Taken, 5)
          /\ LongEnough(dir[f].Key_Quote_or_Insight, 10)
          /\ LongEnough(dir[f].Summary_Psychological, 20)
          /\ LongEnough(dir[f].Outcome_Resolution, 10)

\* C8 witness: a record was written whose texts have just their minimum lengths
RecordWrittenAtMinimumLengths ==
    /\ pc = "pause"
    /\ \E f \in DOMAIN dir :
          /\ Len(dir[f].Role_Model_Context) = 10
          /\ Len(dir[f].Challenge_Narrative) = 20
          /\ Len(dir[f].Key_Action_Taken) = 5

ElevenFields ==
    {"Role_Model_Name", "Role_Model_Context", "Situation_Faced", "Challenge_Narrative",
     "Mental_Health_Themes", "Coping_Strategies_Used", "Key_Action_Taken",
     "Key_Quote_or_Insight", "Summary_Psychological", "Outcome_Resolution",
     "Source_Reference"}

\* C9: while create_json_entry collects a record, and after an interruption at any
\* of its prompts, the folder is as it was when create_json_entry was entered; and
\* every file of the folder holds a record with all eleven fields.
NoPartialRecord ==
    /\ pc \in RecordPrompts \cup {"persist"} => dir = hist.start_dir
    /\ pc = "aborted" /\ hist.aborted_at \in RecordPrompts => dir = hist.start_dir
    /\ \A f \in DOMAIN dir : DOMAIN dir[f] = ElevenFields

\* C9 witness: the session was interrupted at the last prompt of a record, after an
\* earlier record had been written
InterruptedAtLastPrompt ==
    pc = "aborted" /\ hist.aborted_at = "outcome" /\ DOMAIN dir # {}

\* C10: writing a record adds exactly one file to the folder and leaves every file
\* that was there as it was.
EachRecordAddsOneFile ==
    [][pc = "persist" =>
          /\ Cardinality(DOMAIN dir') = Cardinality(DOMAIN dir) + 1
          /\ \A f \in DOMAIN dir : f \in DOMAIN dir' /\ dir'[f] = dir[f]]_vars

====
